---- MODULE Spec2Model ----
(***************************************************************************)
(* Model of src/src/day18.rs: the register machine (Core), its single-core *)
(* stepping, and the two-core runtime (DualCore) that steps two cores      *)
(* alternately over two crossed queues until one step returns an error.    *)
(*                                                                         *)
(* Representation notes.                                                   *)
(*  - A usize program counter u is held as the integer u when u < 2^63 and *)
(*    as u - 2^64 otherwise, so that the wrapping cast `as usize` of a     *)
(*    small negative isize is that negative integer; `code.get(pc)` is     *)
(*    Some exactly for 0 <= pc < len, and `pc += 1` overflows exactly at   *)
(*    the representative -1 (usize::MAX).                                  *)
(*  - An overflowing `pc += 1` panics in a build with overflow checks and  *)
(*    wraps to 0 in a build without; the build is fixed for a run but      *)
(*    unknown, and is resolved at the first overflow.                      *)
(*  - Register values stay far below 2^63 within the bounds of the model,  *)
(*    so i64 addition and multiplication never overflow here.              *)
(***************************************************************************)
EXTENDS Integers, Sequences, FiniteSets, TLC

\* ------------------------------------------------------------------------
\* Bounds of the model
\* ------------------------------------------------------------------------
MaxLen == 3        \* longest program drawn from the whole instruction alphabet
MaxTicks == 8      \* ticks of DualCore::run explored before the model stops
MaxSends == 3      \* longest send prefix of the exchange programs
MaxSteps == 12     \* instructions of Core::run_until_recv explored before the model stops
IntBits == 8       \* width in bits at which i64 is modelled

\* ------------------------------------------------------------------------
\* Values and instructions (enum Value, enum Instruction)
\* ------------------------------------------------------------------------
NoReg == "-"

Register(r) == [kind |-> "Register", r |-> r, n |-> 0]

Number(n) == [kind |-> "Number", r |-> NoReg, n |-> n]

Snd(x) == [op |-> "Snd", r |-> NoReg, x |-> x, y |-> Number(0)]

Set(r, y) == [op |-> "Set", r |-> r, x |-> Number(0), y |-> y]

Add(r, y) == [op |-> "Add", r |-> r, x |-> Number(0), y |-> y]

Mul(r, y) == [op |-> "Mul", r |-> r, x |-> Number(0), y |-> y]

Mod(r, y) == [op |-> "Mod", r |-> r, x |-> Number(0), y |-> y]

Rcv(r) == [op |-> "Rcv", r |-> r, x |-> Number(0), y |-> Number(0)]

Jgz(x, y) == [op |-> "Jgz", r |-> NoReg, x |-> x, y |-> y]

\* ------------------------------------------------------------------------
\* RegisterSet: a HashMap<char, i64>, here a function whose domain is the
\* set of registers inserted so far
\* ------------------------------------------------------------------------
RegisterSetNew == << >>

\* variant: a register never inserted reads 1
RegGetUnsetOne(regs, r) == IF r \in DOMAIN regs THEN regs[r] ELSE 1

RegGet(regs, r) == IF r \in DOMAIN regs THEN regs[r] ELSE 0

RegSet(regs, r, v) == [q \in (DOMAIN regs) \cup {r} |-> IF q = r THEN v ELSE regs[q]]

ValueGet(v, regs) == IF v.kind = "Register" THEN RegGet(regs, v.r) ELSE v.n

\* ------------------------------------------------------------------------
\* Option<i64>
\* ------------------------------------------------------------------------
None == << >>

Some(n) == <<n>>

\* ------------------------------------------------------------------------
\* i64: the register values. The type is modelled IntBits wide instead of 64:
\* +, * and % of i64 meet their limits in the same way at every width, and
\* the limits of 64 bits are beyond the integers the model checker computes
\* with.
\* ------------------------------------------------------------------------
I64Min == -(2 ^ (IntBits - 1))

I64Max == (2 ^ (IntBits - 1)) - 1

\* the two's complement value of n
Wrap(n) == ((n - I64Min) % (2 ^ IntBits)) + I64Min

\* ------------------------------------------------------------------------
\* i64 remainder: truncated, the sign follows the dividend (divisor # 0)
\* ------------------------------------------------------------------------
Abs(n) == IF n < 0 THEN -n ELSE n

Rem(a, b) == IF a >= 0 THEN a % Abs(b) ELSE -((-a) % Abs(b))

\* ------------------------------------------------------------------------
\* Core
\* ------------------------------------------------------------------------
\* variant: a new core starts at the second instruction
CoreNewAtOne(code) == [code |-> code, pc |-> 1, regs |-> RegisterSetNew, freq |-> None]

CoreNew(code) == [code |-> code, pc |-> 0, regs |-> RegisterSetNew, freq |-> None]

InCode(core) == core.pc >= 0 /\ core.pc < Len(core.code)

\* code.get(pc) for a pc inside the code (Vec is 0-indexed, Seq 1-indexed)
CodeGet(core) == core.code[core.pc + 1]

IsOp(core, op) == InCode(core) /\ CodeGet(core).op = op

\* registers after the instruction's match arm of Core::step
ExecRegs(ins, regs) ==
    CASE ins.op = "Set" -> RegSet(regs, ins.r, ValueGet(ins.y, regs))
      [] ins.op = "Add" -> RegSet(regs, ins.r, Wrap(RegGet(regs, ins.r) + ValueGet(ins.y, regs)))
      [] ins.op = "Mul" -> RegSet(regs, ins.r, Wrap(RegGet(regs, ins.r) * ValueGet(ins.y, regs)))
      [] ins.op = "Mod" -> RegSet(regs, ins.r, Rem(RegGet(regs, ins.r), ValueGet(ins.y, regs)))
      [] OTHER -> regs

\* freq after the instruction's match arm of Core::step
ExecFreq(ins, regs, freq) ==
    CASE ins.op = "Snd" -> Some(ValueGet(ins.x, regs))
      [] ins.op = "Rcv" -> IF RegGet(regs, ins.r) # 0 THEN None ELSE freq
      [] OTHER -> freq

\* pc after the instruction's match arm of Core::step, before `self.pc += 1`:
\* (self.pc as isize + ofs as isize - 1) as usize for a taken jump
ExecPc(ins, regs, pc) ==
    IF ins.op = "Jgz" /\ ValueGet(ins.x, regs) > 0
    THEN pc + ValueGet(ins.y, regs) - 1
    ELSE pc

\* `%` panics on a zero divisor in every build
DivisorZero(ins, regs) == ins.op = "Mod" /\ ValueGet(ins.y, regs) = 0

\* `%` panics in every build when the quotient overflows: i64::MIN % -1
RemOverflows(ins, regs) ==
    ins.op = "Mod" /\ RegGet(regs, ins.r) = I64Min /\ ValueGet(ins.y, regs) = -1

\* `+` or `*` leaves the range of i64
ArithOverflows(ins, regs) ==
    \/ /\ ins.op = "Add"
       /\ RegGet(regs, ins.r) + ValueGet(ins.y, regs) \notin I64Min..I64Max
    \/ /\ ins.op = "Mul"
       /\ RegGet(regs, ins.r) * ValueGet(ins.y, regs) \notin I64Min..I64Max

\* `self.pc += 1` overflows at usize::MAX
IncOverflows(pc) == pc = -1

\* variant: a remainder by zero yields 0 and the step goes on
CoreStepSilentMod(core, checked) ==
    IF ~InCode(core)
    THEN [core |-> core, res |-> "OutOfInstructions"]
    ELSE LET ins == CodeGet(core)
             jpc == ExecPc(ins, core.regs, core.pc)
         IN  IF RemOverflows(ins, core.regs)
                \/ ((IncOverflows(jpc) \/ ArithOverflows(ins, core.regs)) /\ checked)
             THEN [core |-> core, res |-> "Panic"]
             ELSE [core |-> [core EXCEPT !.regs = IF DivisorZero(ins, core.regs)
                                                  THEN RegSet(core.regs, ins.r, 0)
                                                  ELSE ExecRegs(ins, core.regs),
                                         !.freq = ExecFreq(ins, core.regs, core.freq),
                                         !.pc = IF IncOverflows(jpc) THEN 0 ELSE jpc + 1],
                   res |-> "Ok"]

\* variant: a remainder by zero is reported as OutOfInstructions
CoreStepModHalts(core, checked) ==
    IF ~InCode(core) \/ DivisorZero(CodeGet(core), core.regs)
    THEN [core |-> core, res |-> "OutOfInstructions"]
    ELSE LET ins == CodeGet(core)
             jpc == ExecPc(ins, core.regs, core.pc)
         IN  IF RemOverflows(ins, core.regs)
                \/ ((IncOverflows(jpc) \/ ArithOverflows(ins, core.regs)) /\ checked)
             THEN [core |-> core, res |-> "Panic"]
             ELSE [core |-> [core EXCEPT !.regs = ExecRegs(ins, core.regs),
                                         !.freq = ExecFreq(ins, core.regs, core.freq),
                                         !.pc = IF IncOverflows(jpc) THEN 0 ELSE jpc + 1],
                   res |-> "Ok"]

\* variant: a pc outside the code is no error
CoreStepNoHalt(core, checked) ==
    IF ~InCode(core)
    THEN [core |-> core, res |-> "Ok"]
    ELSE LET ins == CodeGet(core)
             jpc == ExecPc(ins, core.regs, core.pc)
         IN  IF DivisorZero(ins, core.regs) \/ RemOverflows(ins, core.regs)
                \/ ((IncOverflows(jpc) \/ ArithOverflows(ins, core.regs)) /\ checked)
             THEN [core |-> core, res |-> "Panic"]
             ELSE [core |-> [core EXCEPT !.regs = ExecRegs(ins, core.regs),
                                         !.freq = ExecFreq(ins, core.regs, core.freq),
                                         !.pc = IF IncOverflows(jpc) THEN 0 ELSE jpc + 1],
                   res |-> "Ok"]

\* variant: a step outside the code still advances pc
CoreStepHaltAdvances(core, checked) ==
    IF ~InCode(core)
    THEN [core |-> [core EXCEPT !.pc = core.pc + 1], res |-> "OutOfInstructions"]
    ELSE LET ins == CodeGet(core)
             jpc == ExecPc(ins, core.regs, core.pc)
         IN  IF DivisorZero(ins, core.regs) \/ RemOverflows(ins, core.regs)
                \/ ((IncOverflows(jpc) \/ ArithOverflows(ins, core.regs)) /\ checked)
             THEN [core |-> core, res |-> "Panic"]
             ELSE [core |-> [core EXCEPT !.regs = ExecRegs(ins, core.regs),
                                         !.freq = ExecFreq(ins, core.regs, core.freq),
                                         !.pc = IF IncOverflows(jpc) THEN 0 ELSE jpc + 1],
                   res |-> "Ok"]

\* Core::step: the core after the step and the step's result; "Panic" is
\* the abort of the thread, after which no state of the core is observable
CoreStep(core, checked) ==
    IF ~InCode(core)
    THEN [core |-> core, res |-> "OutOfInstructions"]
    ELSE LET ins == CodeGet(core)
             jpc == ExecPc(ins, core.regs, core.pc)
         IN  IF DivisorZero(ins, core.regs) \/ RemOverflows(ins, core.regs)
                \/ ((IncOverflows(jpc) \/ ArithOverflows(ins, core.regs)) /\ checked)
             THEN [core |-> core, res |-> "Panic"]
             ELSE [core |-> [core EXCEPT !.regs = ExecRegs(ins, core.regs),
                                         !.freq = ExecFreq(ins, core.regs, core.freq),
                                         !.pc = IF IncOverflows(jpc) THEN 0 ELSE jpc + 1],
                   res |-> "Ok"]

\* ------------------------------------------------------------------------
\* VecDeque<i64>
\* ------------------------------------------------------------------------
VecDequeNew == << >>

\* variant: push_front
PushFront(q, v) == <<v>> \o q

PushBack(q, v) == Append(q, v)

IsEmpty(q) == Len(q) = 0

\* variant: the value of pop_back
PopBackValue(q) == q[Len(q)]

\* variant: the head is read but not removed
PopFrontKeep(q) == q

\* pop_front on a non-empty queue: the value returned and the queue left
PopFrontValue(q) == Head(q)

PopFrontRest(q) == Tail(q)

\* ------------------------------------------------------------------------
\* DualCore::step_core(core, rx, tx, count): the core, the two queues and the
\* counter after the call, and the call's result
\* ------------------------------------------------------------------------
\* variant: the send is not counted
StepCoreSndNoCount(core, rx, tx, count, checked) ==
    LET s == CoreStep(core, checked)
    IN  [core |-> s.core, rx |-> rx,
         tx |-> PushBack(tx, ValueGet(CodeGet(core).x, core.regs)),
         count |-> count, res |-> s.res]

StepCoreSnd(core, rx, tx, count, checked) ==
    LET s == CoreStep(core, checked)
    IN  [core |-> s.core, rx |-> rx,
         tx |-> PushBack(tx, ValueGet(CodeGet(core).x, core.regs)),
         count |-> count + 1, res |-> s.res]

\* variant: a core on Rcv is never served
StepCoreRcvNeverServed(core, rx, tx, count, checked) ==
    [core |-> core, rx |-> rx, tx |-> tx, count |-> count, res |-> "Deadlock"]

\* variant: the empty queue is not returned on, the core is stepped anyway
StepCoreRcvNoReturn(core, rx, tx, count, checked) ==
    IF IsEmpty(rx)
    THEN LET s == CoreStep(core, checked)
         IN  [core |-> s.core, rx |-> rx, tx |-> tx, count |-> count, res |-> s.res]
    ELSE LET got == [core EXCEPT !.regs = RegSet(core.regs, CodeGet(core).r, PopFrontValue(rx))]
             s == CoreStep(got, checked)
         IN  [core |-> s.core, rx |-> PopFrontRest(rx), tx |-> tx, count |-> count, res |-> s.res]

StepCoreRcv(core, rx, tx, count, checked) ==
    IF IsEmpty(rx)
    THEN [core |-> core, rx |-> rx, tx |-> tx, count |-> count, res |-> "Deadlock"]
    ELSE LET got == [core EXCEPT !.regs = RegSet(core.regs, CodeGet(core).r, PopFrontValue(rx))]
             s == CoreStep(got, checked)
         IN  [core |-> s.core, rx |-> PopFrontRest(rx), tx |-> tx, count |-> count, res |-> s.res]

\* variant: core.step() is not called for the other instructions
StepCoreOtherNoStep(core, rx, tx, count, checked) ==
    [core |-> core, rx |-> rx, tx |-> tx, count |-> count, res |-> "Ok"]

StepCoreOther(core, rx, tx, count, checked) ==
    LET s == CoreStep(core, checked)
    IN  [core |-> s.core, rx |-> rx, tx |-> tx, count |-> count, res |-> s.res]

step_core(core, rx, tx, count, checked) ==
    CASE IsOp(core, "Snd") -> StepCoreSnd(core, rx, tx, count, checked)
      [] IsOp(core, "Rcv") -> StepCoreRcv(core, rx, tx, count, checked)
      [] OTHER -> StepCoreOther(core, rx, tx, count, checked)

\* true when the call reaches an overflowing `self.pc += 1`, `+` or `*`
StepOverflows(core) ==
    /\ InCode(core)
    /\ \/ /\ IsOp(core, "Jgz")
          /\ IncOverflows(ExecPc(CodeGet(core), core.regs, core.pc))
       \/ ArithOverflows(CodeGet(core), core.regs)

\* ------------------------------------------------------------------------
\* DualCore::step: the match on (r1, r2)
\* ------------------------------------------------------------------------
\* variant: two blocked cores are no error
MatchDeadlockOk(a, b) ==
    CASE a = "Deadlock" /\ b = "Deadlock" -> "Ok"
      [] a = "Deadlock" /\ b # "Deadlock" -> b
      [] a # "Deadlock" /\ b = "Deadlock" -> a
      [] a \notin {"Ok", "Deadlock"} /\ b # "Deadlock" -> a
      [] a = "Ok" /\ b \notin {"Ok", "Deadlock"} -> b
      [] a = "Ok" /\ b = "Ok" -> "Ok"

\* variant: one blocked core is enough to report Deadlock
MatchAnyDeadlock(a, b) ==
    CASE a = "Deadlock" \/ b = "Deadlock" -> "Deadlock"
      [] a \notin {"Ok", "Deadlock"} /\ b # "Deadlock" -> a
      [] a = "Ok" /\ b \notin {"Ok", "Deadlock"} -> b
      [] a = "Ok" /\ b = "Ok" -> "Ok"

\* variant: the second core's result is looked at only when the first is Deadlock
MatchFirstOnly(a, b) ==
    CASE a = "Deadlock" /\ b = "Deadlock" -> "Deadlock"
      [] a = "Deadlock" /\ b # "Deadlock" -> b
      [] OTHER -> a

MatchResults(a, b) ==
    CASE a = "Deadlock" /\ b = "Deadlock" -> "Deadlock"
      [] a = "Deadlock" /\ b # "Deadlock" -> b
      [] a # "Deadlock" /\ b = "Deadlock" -> a
      [] a \notin {"Ok", "Deadlock"} /\ b # "Deadlock" -> a
      [] a = "Ok" /\ b \notin {"Ok", "Deadlock"} -> b
      [] a = "Ok" /\ b = "Ok" -> "Ok"

\* variant: the counters are returned in the other order
RunResultSwapped(c1, c2) == <<c2, c1>>

\* DualCore::run: the value returned once a step has failed
RunResult(c1, c2) == <<c1, c2>>

\* ------------------------------------------------------------------------
\* Programs the model runs
\* ------------------------------------------------------------------------
Alphabet ==
    { Snd(Register("p")), Snd(Register("a")),
      Set("a", Number(1)), Add("a", Number(-1)),
      Mul("a", Register("a")), Mod("a", Register("b")),
      Rcv("a"), Rcv("b"),
      Jgz(Register("a"), Number(-1)), Jgz(Register("p"), Number(2)),
      Jgz(Register("a"), Number(0)), Jgz(Register("p"), Number(0)) }

ShortPrograms == UNION { [1..n -> Alphabet] : n \in 0..MaxLen }

RcvNames == <<"a", "b", "c", "d">>

RcvName(j) == RcvNames[((j - 1) % Len(RcvNames)) + 1]

SendValues == { Number(1), Number(2), Register("p") }

\* n sends of the given values followed by m receives
Exchange(vals, m) ==
    [i \in 1..(Len(vals) + m) |->
        IF i <= Len(vals) THEN Snd(vals[i]) ELSE Rcv(RcvName(i - Len(vals)))]

ExchangePrograms ==
    { Exchange(vals, Len(vals) + k) :
        vals \in UNION { [1..n -> SendValues] : n \in 0..MaxSends }, k \in 1..2 }

\* tests::samples2
Sample2 ==
    << Snd(Number(1)), Snd(Number(2)), Snd(Register("p")),
       Rcv("a"), Rcv("b"), Rcv("c"), Rcv("d") >>

\* offsets of the jump programs
JumpOffsets == -3..3

\* a jump taken by both cores, and one taken by core2 only, for every offset
JumpPrograms ==
    { << Set("a", Number(1)), Jgz(Register("a"), Number(k)), Snd(Register("p")) >> :
         k \in JumpOffsets }
    \cup { << Jgz(Register("p"), Number(k)), Snd(Register("p")) >> : k \in JumpOffsets }

\* arithmetic at and inside the limits of i64
ArithPrograms ==
    { << Set("a", Number(I64Max)), Add("a", Number(1)) >>,
      << Set("a", Number(-I64Max)), Add("a", Number(-1)), Mod("a", Number(-1)) >>,
      << Set("a", Number(-I64Max)), Add("a", Number(-1)), Mul("a", Number(-1)) >>,
      << Set("a", Number(-7)), Mod("a", Number(3)), Snd(Register("a")) >>,
      << Set("a", Number(7)), Mod("a", Number(-3)), Snd(Register("a")) >>,
      << Set("b", Number(-3)), Set("a", Number(5)), Mul("a", Register("b")),
         Add("a", Register("a")), Mod("a", Register("b")) >>,
      << Set("a", Number(3)), Mul("a", Register("a")), Set("b", Register("a")),
         Mod("b", Number(5)) >> }

\* core2 waits on Rcv for a tick before core1 sends, and the other way round
RetryPrograms ==
    { << Jgz(Register("p"), Number(3)), Set("a", Number(1)), Snd(Register("a")),
         Rcv("a") >>,
      << Jgz(Register("p"), Number(2)), Rcv("a"), Set("a", Number(1)),
         Snd(Register("p")), Snd(Number(2)) >> }

\* core1 leaves the code in a tick in which core2 is on Snd, or on Rcv
HaltPrograms ==
    { << Snd(Register("p")), Jgz(Register("p"), Number(-1)) >>,
      << Snd(Register("p")), Jgz(Register("p"), Number(2)), Jgz(Number(1), Number(3)),
         Set("a", Number(1)), Rcv("a") >> }

Programs == ShortPrograms \cup ExchangePrograms \cup {Sample2} \cup JumpPrograms
               \cup ArithPrograms \cup RetryPrograms \cup HaltPrograms

\* programs run on a single core by Core::run_until_recv
SingleAlphabet ==
    { Snd(Register("a")), Snd(Number(7)),
      Set("a", Number(1)), Add("a", Number(-1)),
      Rcv("a"), Jgz(Register("a"), Number(-2)) }

\* tests::samples1
Sample1 ==
    << Set("a", Number(1)), Add("a", Number(2)), Mul("a", Register("a")),
       Mod("a", Number(5)), Snd(Register("a")), Set("a", Number(0)),
       Rcv("a"), Jgz(Register("a"), Number(-1)), Set("a", Number(1)),
       Jgz(Register("a"), Number(-2)) >>

SinglePrograms ==
    UNION { [1..n -> SingleAlphabet] : n \in 0..(MaxLen + 1) } \cup {Sample1}

\* ------------------------------------------------------------------------
\* State
\* ------------------------------------------------------------------------
VARIABLES
    core1, core2,         \* DualCore.core1, DualCore.core2
    queue1, queue2,       \* DualCore.queue1 (read by core1), queue2 (read by core2)
    txcount1, txcount2,   \* DualCore.txcount1, DualCore.txcount2
    at,                   \* position in DualCore::run / DualCore::step
    r1, r2,               \* locals r1, r2 of DualCore::step
    res,                  \* value returned by the last DualCore::step
    ret,                  \* value returned by DualCore::run, None before it returns
    build,                \* "unknown" until an overflow shows "checked" or "wrapping"
    ticks,                \* calls of DualCore::step completed
    tick0,                \* DualCore fields when the current DualCore::step was entered
    sent1, sent2,         \* values each core resolved for its Snd instructions, in order
    rcvd1, rcvd2,         \* values each core's Rcv instructions left in their register
    calls1, calls2,       \* calls of Self::step_core made for core1 and for core2
    solo,                 \* the Core that Core::run_until_recv runs on (`core` in main)
    last_freq,            \* local last_freq of Core::run_until_recv
    found,                \* value returned by Core::run_until_recv, None before it returns
    sat,                  \* position in Core::run_until_recv
    steps,                \* calls of Core::step by run_until_recv that returned Ok
    lastSnd,              \* value resolved by the last Snd the single core executed
    rcvAt,                \* steps when a Rcv on a nonzero register first executed, else 0
    rcvSnd                \* lastSnd when that Rcv executed

\* the state of a DualCore run but for the build
dvars == << core1, core2, queue1, queue2, txcount1, txcount2, at, r1, r2, res, ret,
            ticks, tick0, sent1, sent2, rcvd1, rcvd2, calls1, calls2 >>

\* the state of a Core::run_until_recv run but for the build
svars == << solo, last_freq, found, sat, steps, lastSnd, rcvAt, rcvSnd >>

vars == << dvars, build, svars >>

Fields == [core1 |-> core1, core2 |-> core2, queue1 |-> queue1, queue2 |-> queue2,
           txcount1 |-> txcount1, txcount2 |-> txcount2]

NoResult == "-"

\* DualCore::from_str
Init ==
    /\ \E code \in Programs :
          /\ core1 = [CoreNew(code) EXCEPT !.regs = RegSet(RegisterSetNew, "p", 0)]
          /\ core2 = [CoreNew(code) EXCEPT !.regs = RegSet(RegisterSetNew, "p", 1)]
          /\ tick0 = [core1 |-> [CoreNew(code) EXCEPT !.regs = RegSet(RegisterSetNew, "p", 0)],
                      core2 |-> [CoreNew(code) EXCEPT !.regs = RegSet(RegisterSetNew, "p", 1)],
                      queue1 |-> VecDequeNew, queue2 |-> VecDequeNew,
                      txcount1 |-> 0, txcount2 |-> 0]
    /\ queue1 = VecDequeNew
    /\ queue2 = VecDequeNew
    /\ txcount1 = 0
    /\ txcount2 = 0
    /\ at = "step_core1"
    /\ r1 = NoResult
    /\ r2 = NoResult
    /\ res = NoResult
    /\ ret = None
    /\ build = "unknown"
    /\ ticks = 0
    /\ sent1 = << >>
    /\ sent2 = << >>
    /\ rcvd1 = << >>
    /\ rcvd2 = << >>
    /\ calls1 = 0
    /\ calls2 = 0
    /\ solo = CoreNew(<< >>)
    /\ last_freq = None
    /\ found = None
    /\ sat = "idle"
    /\ steps = 0
    /\ lastSnd = None
    /\ rcvAt = 0
    /\ rcvSnd = None

\* overflow checks on or off, as far as the run has shown
Checked == IF build = "unknown" THEN BOOLEAN ELSE {build = "checked"}

BuildAfter(overflowed, checked) ==
    IF overflowed THEN (IF checked THEN "checked" ELSE "wrapping") ELSE build

\* history of sends and receives of one step_core call
SentAfter(sent, core) ==
    IF IsOp(core, "Snd") THEN Append(sent, ValueGet(CodeGet(core).x, core.regs)) ELSE sent

RcvdAfter(rcvd, core, result, after) ==
    IF IsOp(core, "Rcv") /\ result = "Ok"
    THEN Append(rcvd, RegGet(after.regs, CodeGet(core).r))
    ELSE rcvd

\* variant: core1 is handed queue2 to read and queue1 to write
CallCore1Uncrossed(f, checked) ==
    LET o == step_core(f.core1, f.queue2, f.queue1, f.txcount1, checked)
    IN  [f |-> [f EXCEPT !.core1 = o.core, !.queue2 = o.rx, !.queue1 = o.tx,
                         !.txcount1 = o.count],
         res |-> o.res]

\* Self::step_core(&mut self.core1, &mut self.queue1, &mut self.queue2, &mut self.txcount1)
\* on the fields f of the DualCore: the fields after the call and its result
CallCore1(f, checked) ==
    LET o == step_core(f.core1, f.queue1, f.queue2, f.txcount1, checked)
    IN  [f |-> [f EXCEPT !.core1 = o.core, !.queue1 = o.rx, !.queue2 = o.tx,
                         !.txcount1 = o.count],
         res |-> o.res]

\* variant: core2 is not stepped once core1 is outside its code
CallCore2UnlessHalted(f, checked) ==
    IF ~InCode(f.core1)
    THEN [f |-> f, res |-> "Ok"]
    ELSE LET o == step_core(f.core2, f.queue2, f.queue1, f.txcount2, checked)
         IN  [f |-> [f EXCEPT !.core2 = o.core, !.queue2 = o.rx, !.queue1 = o.tx,
                              !.txcount2 = o.count],
              res |-> o.res]

\* variant: the second call steps core1 again
CallCore2Again(f, checked) ==
    LET o == step_core(f.core1, f.queue1, f.queue2, f.txcount1, checked)
    IN  [f |-> [f EXCEPT !.core1 = o.core, !.queue1 = o.rx, !.queue2 = o.tx,
                         !.txcount1 = o.count],
         res |-> o.res]

\* Self::step_core(&mut self.core2, &mut self.queue2, &mut self.queue1, &mut self.txcount2)
CallCore2(f, checked) ==
    LET o == step_core(f.core2, f.queue2, f.queue1, f.txcount2, checked)
    IN  [f |-> [f EXCEPT !.core2 = o.core, !.queue2 = o.rx, !.queue1 = o.tx,
                         !.txcount2 = o.count],
         res |-> o.res]

FieldsBecome(f) ==
    /\ core1' = f.core1
    /\ core2' = f.core2
    /\ queue1' = f.queue1
    /\ queue2' = f.queue2
    /\ txcount1' = f.txcount1
    /\ txcount2' = f.txcount2

\* let r1 = Self::step_core(...core1...) in DualCore::step
StepCore1 ==
    /\ at = "step_core1"
    /\ \E checked \in Checked :
          LET o == CallCore1(Fields, checked)
          IN  /\ FieldsBecome(o.f)
              /\ r1' = o.res
              /\ at' = IF o.res = "Panic" THEN "panic" ELSE "step_core2"
              /\ build' = BuildAfter(StepOverflows(core1), checked)
              /\ sent1' = SentAfter(sent1, core1)
              /\ rcvd1' = RcvdAfter(rcvd1, core1, o.res, o.f.core1)
    /\ calls1' = calls1 + 1
    /\ UNCHANGED << r2, res, ret, ticks, tick0, sent2, rcvd2, calls2, svars >>

\* let r2 = Self::step_core(...core2...) in DualCore::step
StepCore2 ==
    /\ at = "step_core2"
    /\ \E checked \in Checked :
          LET o == CallCore2(Fields, checked)
          IN  /\ FieldsBecome(o.f)
              /\ r2' = o.res
              /\ at' = IF o.res = "Panic" THEN "panic" ELSE "match"
              /\ build' = BuildAfter(StepOverflows(core2), checked)
              /\ sent2' = SentAfter(sent2, core2)
              /\ rcvd2' = RcvdAfter(rcvd2, core2, o.res, o.f.core2)
    /\ calls2' = calls2 + 1
    /\ UNCHANGED << r1, res, ret, ticks, tick0, sent1, rcvd1, calls1, svars >>

\* match (r1, r2) { ... }: DualCore::step returns
Match ==
    /\ at = "match"
    /\ res' = MatchResults(r1, r2)
    /\ ticks' = ticks + 1
    /\ at' = "run"
    /\ UNCHANGED << core1, core2, queue1, queue2, txcount1, txcount2, r1, r2, ret,
                    build, tick0, sent1, sent2, rcvd1, rcvd2,
                    calls1, calls2, svars >>

\* while let Ok(_) = self.step() {}: the step returned Ok, step again
RunAgain ==
    /\ at = "run"
    /\ res = "Ok"
    /\ ticks < MaxTicks
    /\ at' = "step_core1"
    /\ tick0' = Fields
    /\ UNCHANGED << core1, core2, queue1, queue2, txcount1, txcount2, r1, r2, res, ret,
                    build, ticks, sent1, sent2, rcvd1, rcvd2,
                    calls1, calls2, svars >>

\* the step returned Err: (self.txcount1, self.txcount2)
RunReturn ==
    /\ at = "run"
    /\ res # "Ok"
    /\ ret' = Some(RunResult(txcount1, txcount2))
    /\ at' = "done"
    /\ UNCHANGED << core1, core2, queue1, queue2, txcount1, txcount2, r1, r2, res,
                    build, ticks, tick0, sent1, sent2, rcvd1, rcvd2,
                    calls1, calls2, svars >>

Next == StepCore1 \/ StepCore2 \/ Match \/ RunAgain \/ RunReturn

Spec == Init /\ [][Next]_vars

TypeOK ==
    /\ at \in {"step_core1", "step_core2", "match", "run", "done", "panic"}
    /\ res \in {NoResult, "Ok", "OutOfInstructions", "Deadlock"}
    /\ txcount1 \in Nat /\ txcount2 \in Nat
    /\ ticks \in 0..MaxTicks
    /\ calls1 \in 0..MaxTicks /\ calls2 \in 0..MaxTicks

\* ------------------------------------------------------------------------
\* Core::run_until_recv on a single core
\* ------------------------------------------------------------------------
\* Core::from_str; no DualCore exists in such a run
InitSingle ==
    /\ \E code \in SinglePrograms : solo = CoreNew(code)
    /\ last_freq = None
    /\ found = None
    /\ sat = "step"
    /\ steps = 0
    /\ lastSnd = None
    /\ rcvAt = 0
    /\ rcvSnd = None
    /\ build = "unknown"
    /\ core1 = CoreNew(<< >>)
    /\ core2 = CoreNew(<< >>)
    /\ queue1 = VecDequeNew
    /\ queue2 = VecDequeNew
    /\ txcount1 = 0
    /\ txcount2 = 0
    /\ at = "idle"
    /\ r1 = NoResult
    /\ r2 = NoResult
    /\ res = NoResult
    /\ ret = None
    /\ ticks = 0
    /\ tick0 = [core1 |-> CoreNew(<< >>), core2 |-> CoreNew(<< >>),
                queue1 |-> VecDequeNew, queue2 |-> VecDequeNew,
                txcount1 |-> 0, txcount2 |-> 0]
    /\ sent1 = << >>
    /\ sent2 = << >>
    /\ rcvd1 = << >>
    /\ rcvd2 = << >>
    /\ calls1 = 0
    /\ calls2 = 0

\* the instruction at pc is a Rcv on a register that is not 0
OnRecover(c) == IsOp(c, "Rcv") /\ RegGet(c.regs, CodeGet(c).r) # 0

\* while let Ok(_) = self.step(): the step is made (or panics)
RecvStep ==
    /\ sat = "step"
    /\ steps < MaxSteps
    /\ InCode(solo)
    /\ \E checked \in Checked :
          LET s == CoreStep(solo, checked)
          IN  /\ solo' = s.core
              /\ sat' = IF s.res = "Panic" THEN "panic" ELSE "check"
              /\ steps' = IF s.res = "Panic" THEN steps ELSE steps + 1
              /\ build' = BuildAfter(StepOverflows(solo), checked)
              /\ lastSnd' = IF IsOp(solo, "Snd")
                             THEN Some(ValueGet(CodeGet(solo).x, solo.regs))
                             ELSE lastSnd
              /\ rcvAt' = IF rcvAt = 0 /\ OnRecover(solo) THEN steps + 1 ELSE rcvAt
              /\ rcvSnd' = IF rcvAt = 0 /\ OnRecover(solo) THEN lastSnd ELSE rcvSnd
    /\ UNCHANGED << last_freq, found, dvars >>

\* while let Ok(_) = self.step(): the step returned Err, the loop ends: None
RecvExhausted ==
    /\ sat = "step"
    /\ CoreStep(solo, TRUE).res = "OutOfInstructions"
    /\ found' = Some(None)
    /\ sat' = "returned"
    /\ UNCHANGED << solo, last_freq, steps, lastSnd, rcvAt, rcvSnd, build, dvars >>

\* if self.freq.is_none() && last_freq.is_some() { return last_freq; }
RecvFound ==
    /\ sat = "check"
    /\ solo.freq = None /\ last_freq # None
    /\ found' = Some(last_freq)
    /\ sat' = "returned"
    /\ UNCHANGED << solo, last_freq, steps, lastSnd, rcvAt, rcvSnd, build, dvars >>

\* last_freq = self.freq; and the loop goes on
RecvLoop ==
    /\ sat = "check"
    /\ ~(solo.freq = None /\ last_freq # None)
    /\ last_freq' = solo.freq
    /\ sat' = "step"
    /\ UNCHANGED << solo, found, steps, lastSnd, rcvAt, rcvSnd, build, dvars >>

NextSingle == RecvStep \/ RecvExhausted \/ RecvFound \/ RecvLoop

SpecSingle == InitSingle /\ [][NextSingle]_vars

\* ------------------------------------------------------------------------
\* Properties
\* ------------------------------------------------------------------------
\* the tick in progress (or just completed) was entered with both cores on a
\* Rcv instruction and both queues empty
TickBeganBlocked ==
    /\ IsOp(tick0.core1, "Rcv") /\ IsOp(tick0.core2, "Rcv")
    /\ IsEmpty(tick0.queue1) /\ IsEmpty(tick0.queue2)

Core1Stepped == at \in {"step_core2", "match", "run", "done"}

Core2Stepped == at \in {"match", "run", "done"}

TickOver == at \in {"run", "done"}

\* C1: a tick entered with both cores on Rcv and both queues empty gives
\* Deadlock for both cores and for the step, ends the run in that tick, and
\* leaves cores, queues and counters as they were when it was entered.
C1_DeadlockComplete ==
    TickBeganBlocked =>
        /\ at # "panic"
        /\ Fields = tick0
        /\ Core1Stepped => r1 = "Deadlock"
        /\ Core2Stepped => r2 = "Deadlock"
        /\ TickOver => res = "Deadlock"
        /\ at = "done" => ret = Some(<<tick0.txcount1, tick0.txcount2>>)

C1_Witness ==
    /\ TickBeganBlocked
    /\ at = "done"
    /\ res = "Deadlock"
    /\ ticks > 1
    /\ txcount1 > 0

\* C2: whenever a step has returned Deadlock, each core's program counter is
\* on a Rcv instruction and both queues are empty.
C2_DeadlockSound ==
    (TickOver /\ res = "Deadlock") =>
        /\ IsOp(core1, "Rcv") /\ IsOp(core2, "Rcv")
        /\ IsEmpty(queue1) /\ IsEmpty(queue2)

C2_Witness ==
    /\ at = "done"
    /\ res = "Deadlock"
    /\ Len(rcvd1) > 0
    /\ Len(rcvd2) > 0

\* C3: when either core's result in a tick is OutOfInstructions and the other
\* core's is Ok, Deadlock or OutOfInstructions, the step returns
\* OutOfInstructions and the run returns; no tick is entered after such a tick.
C3_HaltWins ==
    /\ (TickOver /\ "OutOfInstructions" \in {r1, r2}) => res = "OutOfInstructions"
    /\ (at = "step_core1" /\ ticks > 0) => "OutOfInstructions" \notin {r1, r2}
    /\ at = "step_core2" => r2 # "OutOfInstructions"

C3_Witness ==
    /\ at = "done"
    /\ r1 = "Deadlock"
    /\ r2 = "OutOfInstructions"
    /\ res = "OutOfInstructions"

\* C4 (as stated): the value run returns holds, with the two counters, the
\* terminal state, that is the error the last step returned.
C4_ResultHasTag ==
    at = "done" => ret = Some(<<txcount1, txcount2, res>>)

\* C4 (amended): the value run returns is the pair of the two counters and
\* nothing else; the terminal state is the error of the last step, which run
\* drops. Before run returns there is no result.
C4_ResultIsCounters ==
    /\ at = "done" => /\ ret = Some(<<txcount1, txcount2>>)
                      /\ res \in {"OutOfInstructions", "Deadlock"}
    /\ at # "done" => ret = None

C4_Witness ==
    /\ at = "done"
    /\ res = "Deadlock"
    /\ ret = Some(<<1, 1>>)
    /\ RegGet(core1.regs, "a") # RegGet(core2.regs, "a")

\* C5: a step of a core on Rcv with its inbound queue empty returns Deadlock
\* and changes no field of the DualCore (program counters, registers, queues,
\* counters); a core changes only in its own step, so the same Rcv is what the
\* core executes when it is stepped next.
C5_BlockedNoEffect ==
    [][ /\ (at = "step_core1" /\ IsOp(core1, "Rcv") /\ IsEmpty(queue1))
            => (r1' = "Deadlock" /\ Fields' = Fields /\ at' = "step_core2")
        /\ (at = "step_core2" /\ IsOp(core2, "Rcv") /\ IsEmpty(queue2))
            => (r2' = "Deadlock" /\ Fields' = Fields /\ at' = "match")
        /\ at # "step_core1" => core1' = core1
        /\ at # "step_core2" => core2' = core2 ]_vars

C5_Witness ==
    /\ at = "run"
    /\ res = "Ok"
    /\ r1 = "Deadlock"
    /\ IsOp(core1, "Rcv")
    /\ core1 = tick0.core1
    /\ ticks >= 2

\* C6: per direction, the values the reader has received followed by the
\* values still queued are exactly the values the writer has sent, in order.
C6_Fifo ==
    /\ rcvd2 \o queue2 = sent1
    /\ rcvd1 \o queue1 = sent2

C6_Witness ==
    /\ Len(rcvd2) >= 2
    /\ Len(queue2) >= 1
    /\ rcvd2[1] # rcvd2[2]
    /\ queue2[1] # rcvd2[2]

\* the queue q2 is q or q with one value appended
SameOrPushed(q, q2) ==
    \/ q2 = q
    \/ (Len(q2) = Len(q) + 1 /\ SubSeq(q2, 1, Len(q)) = q)

\* the queue q2 is q or q without its head
SameOrPopped(q, q2) ==
    \/ q2 = q
    \/ (~IsEmpty(q) /\ q2 = Tail(q))

\* C7: queue2 is written only by core1 and read only by core2, queue1 is
\* written only by core2 and read only by core1: a step of core1 appends what
\* it sends to queue2 and takes what it receives from the head of queue1, a
\* step of core2 the other way round, and nothing else touches the queues.
C7_CrossedWiring ==
    [][ /\ at = "step_core1" =>
            /\ SameOrPopped(queue1, queue1') /\ SameOrPushed(queue2, queue2')
            /\ Len(sent1') > Len(sent1) =>
                   queue2' = Append(queue2, sent1'[Len(sent1')])
            /\ Len(rcvd1') > Len(rcvd1) =>
                   (~IsEmpty(queue1) /\ rcvd1'[Len(rcvd1')] = Head(queue1)
                      /\ queue1' = Tail(queue1))
        /\ at = "step_core2" =>
            /\ SameOrPopped(queue2, queue2') /\ SameOrPushed(queue1, queue1')
            /\ Len(sent2') > Len(sent2) =>
                   queue1' = Append(queue1, sent2'[Len(sent2')])
            /\ Len(rcvd2') > Len(rcvd2) =>
                   (~IsEmpty(queue2) /\ rcvd2'[Len(rcvd2')] = Head(queue2)
                      /\ queue2' = Tail(queue2))
        /\ at \notin {"step_core1", "step_core2"} =>
            UNCHANGED << queue1, queue2 >> ]_vars

C7_Witness ==
    /\ Len(rcvd1) > 0
    /\ Len(rcvd2) > 0
    /\ sent1[1] # sent2[1]
    /\ rcvd1[1] = sent2[1]
    /\ rcvd2[1] = sent1[1]

\* the effect of step_core on a Snd instruction: c, tx, rx, n are the core,
\* its outbound and inbound queue and its counter before, primed ones after
SndEffect(c, c2, tx, tx2, rx, rx2, n, n2) ==
    /\ tx2 = Append(tx, ValueGet(CodeGet(c).x, c.regs))
    /\ n2 = n + 1
    /\ c2.pc = c.pc + 1
    /\ c2.regs = c.regs
    /\ c2.code = c.code
    /\ rx2 = rx

\* C8: a step of a core on Snd(v) appends the value v has in that core's
\* registers to the tail of the core's outbound queue, adds 1 to the core's
\* counter and to its program counter, and leaves its registers, its inbound
\* queue, the other core and the other counter as they were.
C8_SendStep ==
    [][ /\ (at = "step_core1" /\ IsOp(core1, "Snd")) =>
            /\ SndEffect(core1, core1', queue2, queue2', queue1, queue1', txcount1, txcount1')
            /\ UNCHANGED << core2, txcount2 >>
            /\ r1' = "Ok"
        /\ (at = "step_core2" /\ IsOp(core2, "Snd")) =>
            /\ SndEffect(core2, core2', queue1, queue1', queue2, queue2', txcount2, txcount2')
            /\ UNCHANGED << core1, txcount1 >>
            /\ r2' = "Ok" ]_vars

C8_Witness ==
    /\ at = "match"
    /\ IsOp(tick0.core2, "Snd")
    /\ CodeGet(tick0.core2).x = Register("a")
    /\ Len(queue1) >= 2
    /\ queue1[Len(queue1)] = 1
    /\ txcount2 = 2

\* every register but r reads the same in regs and regs2
OthersKept(regs, regs2, r) ==
    \A q \in ((DOMAIN regs) \cup (DOMAIN regs2)) \ {r} : RegGet(regs2, q) = RegGet(regs, q)

\* the effect of step_core on a Rcv instruction with a non-empty inbound queue
RcvEffect(c, c2, rx, rx2) ==
    /\ rx2 = Tail(rx)
    /\ RegGet(c2.regs, CodeGet(c).r) = Head(rx)
    /\ OthersKept(c.regs, c2.regs, CodeGet(c).r)
    /\ c2.pc = c.pc + 1
    /\ c2.code = c.code

\* C9: a step of a core on Rcv(r) with a non-empty inbound queue removes the
\* head of that queue, sets r to it, adds 1 to the program counter and leaves
\* the other registers, the outbound queue, both counters and the other core
\* as they were.
C9_ReceiveStep ==
    [][ /\ (at = "step_core1" /\ IsOp(core1, "Rcv") /\ ~IsEmpty(queue1)) =>
            /\ RcvEffect(core1, core1', queue1, queue1')
            /\ UNCHANGED << queue2, txcount1, txcount2, core2 >>
            /\ r1' = "Ok"
        /\ (at = "step_core2" /\ IsOp(core2, "Rcv") /\ ~IsEmpty(queue2)) =>
            /\ RcvEffect(core2, core2', queue2, queue2')
            /\ UNCHANGED << queue1, txcount1, txcount2, core1 >>
            /\ r2' = "Ok" ]_vars

C9_Witness ==
    /\ at = "step_core2"
    /\ IsOp(tick0.core1, "Rcv")
    /\ Len(tick0.queue1) >= 2
    /\ tick0.queue1[1] # tick0.queue1[2]
    /\ queue1 = Tail(tick0.queue1)
    /\ RegGet(core1.regs, CodeGet(tick0.core1).r) = tick0.queue1[1]

\* the number of Snd instructions of a program
Sends(code) == Cardinality({i \in 1..Len(code) : code[i].op = "Snd"})

\* a program of n Snd instructions followed by more than n Rcv instructions
IsExchange(code) ==
    /\ \A i \in 1..Len(code) :
          code[i].op = (IF i <= Sends(code) THEN "Snd" ELSE "Rcv")
    /\ Len(code) - Sends(code) > Sends(code)

\* the values the sends of an exchange program resolve to in the core of
\* process id p, whose registers hold only p when it sends
Outgoing(code, p) ==
    [j \in 1..Sends(code) |-> ValueGet(code[j].x, RegSet(RegisterSetNew, "p", p))]

\* C10: on a program of n sends followed by more than n receives the run
\* returns in the tick after the n sends and n receives, as Deadlock, with
\* counters (n, n), and the j-th receive of each core has stored the j-th
\* value the other core sent; on the program of tests::samples2 the result is
\* (3, 3), register c of the first core is 1 and of the second core is 0.
C10_SimpleExchange ==
    IsExchange(core1.code) =>
        LET n == Sends(core1.code)
        IN  /\ at # "panic"
            /\ ticks <= 2 * n + 1
            /\ at = "run" => (res = "Ok" <=> ticks <= 2 * n)
            /\ at = "done" =>
                  /\ ret = Some(<<n, n>>)
                  /\ res = "Deadlock"
                  /\ rcvd1 = Outgoing(core2.code, 1)
                  /\ rcvd2 = Outgoing(core1.code, 0)
                  /\ \A j \in 1..n :
                        /\ core1.code[n + j].r \notin
                              {core1.code[n + k].r : k \in (j + 1)..n}
                             => RegGet(core1.regs, core1.code[n + j].r) = rcvd1[j]
                        /\ core2.code[n + j].r \notin
                              {core2.code[n + k].r : k \in (j + 1)..n}
                             => RegGet(core2.regs, core2.code[n + j].r) = rcvd2[j]
                  /\ core1.code = Sample2 =>
                        /\ ret = Some(<<3, 3>>)
                        /\ RegGet(core1.regs, "c") = 1
                        /\ RegGet(core2.regs, "c") = 0

C10_Witness ==
    /\ at = "done"
    /\ core1.code = Sample2
    /\ ret = Some(<<3, 3>>)
    /\ RegGet(core1.regs, "c") = 1
    /\ RegGet(core2.regs, "c") = 0

\* C11: on the program `rcv a` the first tick returns Deadlock, the run
\* returns after that one tick, both counters are 0 and nothing has changed.
C11_RcvOnlyDeadlocks ==
    core1.code = << Rcv("a") >> =>
        /\ at # "panic"
        /\ ticks <= 1
        /\ TickOver => (ticks = 1 /\ res = "Deadlock")
        /\ at = "done" => ret = Some(<<0, 0>>)
        /\ txcount1 = 0 /\ txcount2 = 0
        /\ IsEmpty(queue1) /\ IsEmpty(queue2)

C11_Witness ==
    /\ core1.code = << Rcv("a") >>
    /\ core2.code = << Rcv("a") >>
    /\ at = "done"
    /\ ticks = 1
    /\ res = "Deadlock"
    /\ ret = Some(<<0, 0>>)

\* C12: on the program of no instructions the first tick returns
\* OutOfInstructions, the run returns after that one tick with counters
\* (0, 0), and both queues are still empty.
C12_EmptyProgramHalts ==
    Len(core1.code) = 0 =>
        /\ at # "panic"
        /\ ticks <= 1
        /\ Core1Stepped => r1 = "OutOfInstructions"
        /\ Core2Stepped => r2 = "OutOfInstructions"
        /\ TickOver => (ticks = 1 /\ res = "OutOfInstructions")
        /\ at = "done" => ret = Some(<<0, 0>>)
        /\ txcount1 = 0 /\ txcount2 = 0
        /\ IsEmpty(queue1) /\ IsEmpty(queue2)

C12_Witness ==
    /\ Len(core1.code) = 0
    /\ Len(core2.code) = 0
    /\ at = "done"
    /\ ticks = 1
    /\ res = "OutOfInstructions"
    /\ ret = Some(<<0, 0>>)
    /\ IsEmpty(queue1) /\ IsEmpty(queue2)

\* the instruction at pc is a Mod whose operand resolves to 0
OnModZero(c) == IsOp(c, "Mod") /\ ValueGet(CodeGet(c).y, c.regs) = 0

\* C14: a step of a core on Mod(r, v) with v resolving to 0 is a fault (the
\* panic of `%`): the step does not return Ok and assigns nothing, register r
\* included.
C14_ModZeroFaults ==
    [][ /\ (at = "step_core1" /\ OnModZero(core1)) =>
            (r1' = "Panic" /\ at' = "panic" /\ core1'.regs = core1.regs
               /\ core1'.pc = core1.pc)
        /\ (at = "step_core2" /\ OnModZero(core2)) =>
            (r2' = "Panic" /\ at' = "panic" /\ core2'.regs = core2.regs
               /\ core2'.pc = core2.pc) ]_vars

C14_Witness ==
    /\ at = "panic"
    /\ r1 = "Panic"
    /\ OnModZero(core1)
    /\ RegGet(core1.regs, "a") # 0

\* C15: a Mod by 0 in one core leaves the other core's program counter and
\* registers and both queues as they were, and ends the run at once in an
\* outcome that is neither OutOfInstructions nor Deadlock: no step returns a
\* result for that tick, no later tick is entered and run returns nothing.
C15_FaultEndsRun ==
    [][ /\ (at = "step_core1" /\ OnModZero(core1)) =>
            (at' = "panic" /\ UNCHANGED << core2, queue1, queue2, res, ret, ticks >>)
        /\ (at = "step_core2" /\ OnModZero(core2)) =>
            (at' = "panic" /\ UNCHANGED << core1, queue1, queue2, res, ret, ticks >>)
        /\ at = "panic" =>
            (res \notin {"OutOfInstructions", "Deadlock"} /\ ret = None
               /\ UNCHANGED vars) ]_vars

C15_Witness ==
    /\ at = "panic"
    /\ r1 = "Ok"
    /\ r2 = "Panic"
    /\ OnModZero(core2)
    /\ ticks >= 2
    /\ res = "Ok"
    /\ ret = None

\* C16 (as stated): run_until_recv returns the value of the last Snd executed
\* before the first execution of a Rcv on a nonzero register (no value when
\* there was no such Snd); it returns None when the program counter leaves
\* the program before any Rcv on a nonzero register; on the program of
\* tests::samples1 it returns 4.
C16_Recovered ==
    /\ (sat = "returned" /\ rcvAt # 0) => found = Some(rcvSnd)
    /\ (sat = "returned" /\ rcvAt = 0) => found = Some(None)
    /\ (sat = "returned" /\ solo.code = Sample1) => found = Some(Some(4))

\* C17 (as stated): once a Rcv on a nonzero register has been executed the
\* core executes nothing more, whether or not a Snd was executed before it;
\* and a Rcv on a register that is 0 changes only the program counter, by 1.
C17_RecoverStops ==
    [][ /\ rcvAt # 0 => solo' = solo
        /\ (sat = "step" /\ IsOp(solo, "Rcv") /\ ~OnRecover(solo)) =>
              solo' = [solo EXCEPT !.pc = solo.pc + 1] ]_vars

\* register names the register file is examined on; no program names "x"
RegNames == {"a", "b", "p", "x"}

\* values written when examining set
RegValues == {-1, 0, 2}

\* the register file with every name of RegNames inserted with the value it reads
Filled(regs) == [q \in RegNames \cup DOMAIN regs |-> RegGet(regs, q)]

\* get after new and after set
RegAlgebra(regs) ==
    /\ \A q \in RegNames : RegGet(RegisterSetNew, q) = 0
    /\ \A q \in RegNames : q \notin DOMAIN regs => RegGet(regs, q) = 0
    /\ \A r \in RegNames, v \in RegValues :
          /\ RegGet(RegSet(regs, r, v), r) = v
          /\ \A q \in RegNames \ {r} : RegGet(RegSet(regs, r, v), q) = RegGet(regs, q)

\* the instruction at pc reads a register that was never inserted
ReadsUnset(c) ==
    /\ InCode(c)
    /\ \/ CodeGet(c).op = "Snd" /\ CodeGet(c).x.kind = "Register"
             /\ CodeGet(c).x.r \notin DOMAIN c.regs
       \/ CodeGet(c).op \in {"Set", "Add", "Mul", "Mod"} /\ CodeGet(c).y.kind = "Register"
             /\ CodeGet(c).y.r \notin DOMAIN c.regs
       \/ CodeGet(c).op \in {"Add", "Mul", "Mod"} /\ CodeGet(c).r \notin DOMAIN c.regs
       \/ CodeGet(c).op = "Jgz"
             /\ \/ CodeGet(c).x.kind = "Register" /\ CodeGet(c).x.r \notin DOMAIN c.regs
                \/ CodeGet(c).y.kind = "Register" /\ CodeGet(c).y.r \notin DOMAIN c.regs

\* a step on a register file with unset names does what it does on the file
\* that holds 0 under those names, and fails only for a zero divisor or an
\* overflowing pc
UnsetIsZero(c) ==
    \A checked \in BOOLEAN :
       LET s == CoreStep(c, checked)
           t == CoreStep([c EXCEPT !.regs = Filled(c.regs)], checked)
       IN  /\ s.res = t.res
           /\ s.core.pc = t.core.pc
           /\ s.core.freq = t.core.freq
           /\ \A q \in RegNames : RegGet(s.core.regs, q) = RegGet(t.core.regs, q)
           /\ (ReadsUnset(c) /\ s.res # "Ok") =>
                 \/ DivisorZero(CodeGet(c), c.regs)
                 \/ (checked /\ StepOverflows(c))

\* C18: on every register file a run produces, get of a name never set is 0,
\* get after set(name, v) is v and get of every other name is what it was;
\* a step whose instruction reads an unset register behaves as on a register
\* holding 0 and is no error on account of the register being unset.
C18_RegisterFile ==
    \A c \in {core1, core2} : RegAlgebra(c.regs) /\ UnsetIsZero(c)

C18_Witness ==
    /\ at = "step_core2"
    /\ ReadsUnset(tick0.core1)
    /\ IsOp(tick0.core1, "Snd")
    /\ r1 = "Ok"
    /\ queue2 = <<0>>
    /\ ReadsUnset(core2)
    /\ IsOp(core2, "Snd")

\* C19: when DualCore::from_str has returned, both cores are at pc 0 with the
\* same code, p is 0 in core1 and 1 in core2 and is the only register
\* inserted, every other register reads 0, both queues are empty and both
\* counters are 0.
C19_InitialState ==
    (at = "step_core1" /\ ticks = 0) =>
       /\ core1.pc = 0 /\ core2.pc = 0
       /\ core1.code = core2.code
       /\ RegGet(core1.regs, "p") = 0
       /\ RegGet(core2.regs, "p") = 1
       /\ DOMAIN core1.regs = {"p"} /\ DOMAIN core2.regs = {"p"}
       /\ \A q \in RegNames \ {"p"} : RegGet(core1.regs, q) = 0 /\ RegGet(core2.regs, q) = 0
       /\ core1.freq = None /\ core2.freq = None
       /\ IsEmpty(queue1) /\ IsEmpty(queue2)
       /\ txcount1 = 0 /\ txcount2 = 0

C19_Witness ==
    /\ at = "step_core1"
    /\ ticks = 0
    /\ core1.code = Sample2
    /\ core2.code = Sample2
    /\ core2.regs = RegSet(RegisterSetNew, "p", 1)

\* program counters, registers, queues and counters of the fields f
CompleteState(f) ==
    << f.core1.pc, f.core2.pc, f.core1.regs, f.core2.regs, f.queue1, f.queue2,
       f.txcount1, f.txcount2 >>

\* the tick that is over returned Ok, so run steps again
TickContinued == at = "run" /\ res = "Ok"

\* the instruction at pc is a taken Jgz whose offset resolves to 0
SelfJump(c) ==
    /\ IsOp(c, "Jgz")
    /\ ValueGet(CodeGet(c).x, c.regs) > 0
    /\ ValueGet(CodeGet(c).y, c.regs) = 0

\* the core is on Rcv with nothing to pop
Blocked(c, rx) == IsOp(c, "Rcv") /\ IsEmpty(rx)

\* C20 (as stated): every tick after which the run keeps going has changed
\* program counters, registers, queues or counters.
C20_TickChanges ==
    TickContinued => CompleteState(Fields) # CompleteState(tick0)

\* C20: a tick after which the run keeps going leaves program counters,
\* registers, queues and counters unchanged exactly when each core was, in
\* that tick, on a taken Jgz with offset 0 or blocked on Rcv; every other
\* such tick changes them.
C20_TickChangesUnlessSelfJump ==
    TickContinued =>
       (CompleteState(Fields) = CompleteState(tick0)
          <=> /\ SelfJump(tick0.core1) \/ Blocked(tick0.core1, tick0.queue1)
              /\ SelfJump(tick0.core2) \/ Blocked(tick0.core2, tick0.queue2))

C20_Witness ==
    /\ TickContinued
    /\ CompleteState(Fields) = CompleteState(tick0)
    /\ Blocked(core1, queue1)
    /\ SelfJump(core2)
    /\ r1 = "Deadlock"
    /\ r2 = "Ok"
    /\ ticks >= 3

\* the fields are those of tick0 after one step of core1 on (queue1, queue2)
\* followed by one step of core2 on the queues that step left
OneStepEach ==
    \E c1 \in BOOLEAN, c2 \in BOOLEAN :
       LET a == step_core(tick0.core1, tick0.queue1, tick0.queue2, tick0.txcount1, c1)
           b == step_core(tick0.core2, a.tx, a.rx, tick0.txcount2, c2)
       IN  /\ core1 = a.core /\ txcount1 = a.count /\ r1 = a.res
           /\ core2 = b.core /\ txcount2 = b.count /\ r2 = b.res
           /\ queue1 = b.tx
           /\ queue2 = b.rx

\* the fields are those of tick0 after one step of core1 alone
OneStepOfCore1 ==
    \E c1 \in BOOLEAN :
       LET a == step_core(tick0.core1, tick0.queue1, tick0.queue2, tick0.txcount1, c1)
       IN  /\ core1 = a.core /\ txcount1 = a.count /\ r1 = a.res
           /\ queue1 = a.rx
           /\ queue2 = a.tx
           /\ core2 = tick0.core2 /\ txcount2 = tick0.txcount2

\* C21: DualCore::step calls step_core once for core1 and then once for core2:
\* core1 is never more than one call ahead and never behind, between two
\* calls of step both cores have had as many calls as ticks are completed, and
\* the step of core2 works on the queues as the completed step of core1 left
\* them. (A step that panics ends the process inside its tick.)
C21_StrictAlternation ==
    /\ calls1 - calls2 \in {0, 1}
    /\ at \in {"step_core1", "run", "done"} => (calls1 = ticks /\ calls2 = ticks)
    /\ at = "step_core1" => Fields = tick0
    /\ at = "step_core2" => (calls1 = ticks + 1 /\ calls2 = ticks /\ OneStepOfCore1)
    /\ at = "match" => (calls1 = ticks + 1 /\ calls2 = ticks + 1 /\ OneStepEach)
    /\ at \in {"run", "done"} => OneStepEach
    /\ (at = "panic" /\ r1 = "Panic") => (calls1 = ticks + 1 /\ calls2 = ticks)
    /\ (at = "panic" /\ r1 # "Panic") => (calls1 = ticks + 1 /\ calls2 = ticks + 1)

C21_Witness ==
    /\ at = "match"
    /\ ticks >= 1
    /\ calls1 = ticks + 1
    /\ IsOp(tick0.core1, "Snd")
    /\ IsOp(tick0.core2, "Rcv")
    /\ IsEmpty(tick0.queue2)
    /\ r1 = "Ok"
    /\ r2 = "Ok"
    /\ IsEmpty(queue2)

\* core1 has been stepped in the current tick and core2 has not
Core1JustStepped == calls1 = ticks + 1 /\ calls2 = ticks

\* core2 has been stepped in the current tick and the tick is not over
Core2JustStepped == calls2 = ticks + 1 /\ at \in {"match", "panic"}

\* pc + offset for a taken jump, pc + 1 otherwise
JumpTarget(c) ==
    IF ValueGet(CodeGet(c).x, c.regs) > 0
    THEN c.pc + ValueGet(CodeGet(c).y, c.regs)
    ELSE c.pc + 1

\* C22 (as stated): a step on Jgz(cond, offset) returns Ok and leaves pc at
\* pc + offset when cond resolves to a value > 0, whatever the target,
\* instruction 0 included, and at pc + 1 otherwise; registers, queues and
\* counters are as before the step.
C22_JumpMovesPc ==
    /\ (Core1JustStepped /\ IsOp(tick0.core1, "Jgz")) =>
          /\ r1 = "Ok"
          /\ core1.pc = JumpTarget(tick0.core1)
          /\ core1.regs = tick0.core1.regs
          /\ queue1 = tick0.queue1 /\ queue2 = tick0.queue2
          /\ txcount1 = tick0.txcount1 /\ txcount2 = tick0.txcount2
    /\ (Core2JustStepped /\ IsOp(tick0.core2, "Jgz")) =>
          /\ r2 = "Ok"
          /\ core2.pc = JumpTarget(tick0.core2)
          /\ core2.regs = tick0.core2.regs
          /\ txcount2 = tick0.txcount2

\* the core and its counter are as they were when the tick was entered
NothingExecuted1 == core1 = tick0.core1 /\ txcount1 = tick0.txcount1

NothingExecuted2 == core2 = tick0.core2 /\ txcount2 = tick0.txcount2

\* C23: a core whose pc is outside the code, below 0 after a jump or at or
\* past the end after a jump or an advance, gets OutOfInstructions from its
\* next step: the step is no panic and executes no instruction.
C23_OutsideIsHalt ==
    /\ (Core1JustStepped /\ ~InCode(tick0.core1)) =>
          (r1 = "OutOfInstructions" /\ at = "step_core2" /\ NothingExecuted1)
    /\ (Core2JustStepped /\ ~InCode(tick0.core2)) =>
          (r2 = "OutOfInstructions" /\ at = "match" /\ NothingExecuted2)
    /\ (TickOver /\ (~InCode(tick0.core1) \/ ~InCode(tick0.core2))) =>
          res = "OutOfInstructions"

C23_Witness ==
    /\ Core1JustStepped
    /\ tick0.core1.pc < 0
    /\ IsOp([tick0.core1 EXCEPT !.pc = 1], "Jgz")
    /\ r1 = "OutOfInstructions"
    /\ ticks = 2

\* step_core on a core outside its code returns OutOfInstructions and the
\* core, queues and counter it was given, however often it is called
HaltedStepKeeps(c, rx, tx, count) ==
    \A checked \in BOOLEAN :
       LET o == step_core(c, rx, tx, count, checked)
       IN  /\ o = [core |-> c, rx |-> rx, tx |-> tx, count |-> count,
                   res |-> "OutOfInstructions"]
           /\ step_core(o.core, o.rx, o.tx, o.count, checked) = o

\* C24: a step of a core whose pc is outside the code returns
\* OutOfInstructions and leaves pc, registers, both queues and both counters
\* as they were; stepping it again gives the same.
C24_HaltedStepNoEffect ==
    /\ (Core1JustStepped /\ ~InCode(tick0.core1)) =>
          (r1 = "OutOfInstructions" /\ Fields = tick0)
    /\ (at = "match" /\ ~InCode(tick0.core2)) =>
          /\ r2 = "OutOfInstructions"
          /\ core2 = tick0.core2
          /\ txcount2 = tick0.txcount2
          /\ \E c1 \in BOOLEAN :
                LET a == step_core(tick0.core1, tick0.queue1, tick0.queue2,
                                   tick0.txcount1, c1)
                IN  queue1 = a.rx /\ queue2 = a.tx /\ txcount1 = a.count
                       /\ core1 = a.core
    /\ ~InCode(core1) => HaltedStepKeeps(core1, queue1, queue2, txcount1)
    /\ ~InCode(core2) => HaltedStepKeeps(core2, queue2, queue1, txcount2)

C24_Witness ==
    /\ at = "match"
    /\ ~InCode(tick0.core2)
    /\ IsOp(tick0.core1, "Snd")
    /\ r1 = "Ok"
    /\ r2 = "OutOfInstructions"
    /\ queue2 = <<0>>
    /\ txcount1 = 1

\* the instruction at pc is Set, Add, Mul or a Mod whose divisor is not 0
ArithOp(c) ==
    /\ InCode(c)
    /\ CodeGet(c).op \in {"Set", "Add", "Mul", "Mod"}
    /\ ~DivisorZero(CodeGet(c), c.regs)

\* v, r + v, r * v or the remainder of r by v, as integers
ArithValue(c) ==
    LET ins == CodeGet(c)
        r == RegGet(c.regs, ins.r)
        v == ValueGet(ins.y, c.regs)
    IN  CASE ins.op = "Set" -> v
          [] ins.op = "Add" -> r + v
          [] ins.op = "Mul" -> r * v
          [] ins.op = "Mod" -> Rem(r, v)

\* after is before with register r holding n and pc advanced by 1
ArithEffect(before, after, n) ==
    /\ after.pc = before.pc + 1
    /\ RegGet(after.regs, CodeGet(before).r) = n
    /\ \A q \in RegNames \ {CodeGet(before).r} :
          RegGet(after.regs, q) = RegGet(before.regs, q)

\* C25 (as stated): a step on Set, Add, Mul or Mod with a nonzero divisor
\* returns Ok, sets r to v, r + v, r * v or the remainder, with v resolved
\* before the step, advances pc by 1 and leaves every other register, both
\* queues and both counters as they were.
C25_ArithmeticStep ==
    /\ (Core1JustStepped /\ ArithOp(tick0.core1)) =>
          /\ r1 = "Ok"
          /\ ArithEffect(tick0.core1, core1, ArithValue(tick0.core1))
          /\ queue1 = tick0.queue1 /\ queue2 = tick0.queue2
          /\ txcount1 = tick0.txcount1 /\ txcount2 = tick0.txcount2
    /\ (Core2JustStepped /\ ArithOp(tick0.core2)) =>
          /\ r2 = "Ok"
          /\ ArithEffect(tick0.core2, core2, ArithValue(tick0.core2))
          /\ txcount2 = tick0.txcount2

\* queue2 as the step of core1 in the current tick left it for core2
Queue2Seen(checked) ==
    step_core(tick0.core1, tick0.queue1, tick0.queue2, tick0.txcount1, checked).tx

\* C26: a step_core call returns Deadlock exactly when the core's pc is inside
\* the code, the instruction there is Rcv and the queue the core reads is
\* empty when the call is made; on any other instruction, outside the code, or
\* on Rcv with a value queued it returns something else.
C26_BlockedIff ==
    /\ Core1JustStepped =>
          (r1 = "Deadlock" <=> Blocked(tick0.core1, tick0.queue1))
    /\ Core2JustStepped =>
          \A c1 \in BOOLEAN :
             (r2 = "Deadlock" <=> Blocked(tick0.core2, Queue2Seen(c1)))
    /\ \A checked \in BOOLEAN :
          /\ step_core(core1, queue1, queue2, txcount1, checked).res = "Deadlock"
                <=> (InCode(core1) /\ CodeGet(core1).op = "Rcv" /\ IsEmpty(queue1))
          /\ step_core(core2, queue2, queue1, txcount2, checked).res = "Deadlock"
                <=> (InCode(core2) /\ CodeGet(core2).op = "Rcv" /\ IsEmpty(queue2))

C26_Witness ==
    /\ at = "match"
    /\ r1 = "Deadlock"
    /\ Blocked(tick0.core1, tick0.queue1)
    /\ IsOp(tick0.core2, "Snd")
    /\ r2 = "Ok"
    /\ ~Blocked(core1, queue1)
    /\ ticks >= 1

\* the step of core c on Rcv took the head of rx, the oldest value of sent
\* not yet received, into the register and advanced
Served(c, after, rx, rxAfter, sent, rcvd) ==
    /\ RegGet(after.regs, CodeGet(c).r) = Head(rx)
    /\ Head(rx) = sent[Len(rcvd) + 1]
    /\ rxAfter = Tail(rx)
    /\ after.pc = c.pc + 1

\* C27: a core that returned Deadlock in the tick before is stepped again in
\* the next tick of the run, and when a value has been queued for it since,
\* that step returns Ok with the oldest value not yet received in the
\* register; the same holds whenever a core is stepped on Rcv with a value
\* queued.
C27_BlockedRetried ==
    [][ /\ (at = "run" /\ res = "Ok") => at' = "step_core1"
        /\ at = "step_core1" => (calls1' = calls1 + 1 /\ at' \in {"step_core2", "panic"})
        /\ at = "step_core2" => (calls2' = calls2 + 1 /\ at' \in {"match", "panic"})
        /\ (at = "step_core1" /\ r1 = "Deadlock") => IsOp(core1, "Rcv")
        /\ (at = "step_core2" /\ r2 = "Deadlock") => IsOp(core2, "Rcv")
        /\ (at = "step_core1" /\ IsOp(core1, "Rcv") /\ ~IsEmpty(queue1)) =>
              (r1' = "Ok" /\ Served(core1, core1', queue1, queue1', sent2, rcvd1))
        /\ (at = "step_core2" /\ IsOp(core2, "Rcv") /\ ~IsEmpty(queue2)) =>
              (r2' = "Ok" /\ Served(core2, core2', queue2, queue2', sent1, rcvd2)) ]_vars

C27_Witness ==
    /\ Core1JustStepped
    /\ ticks = 2
    /\ calls1 = 3
    /\ core1.code = << Jgz(Register("p"), Number(2)), Rcv("a"), Snd(Register("p")) >>
    /\ tick0.core1.pc = 1
    /\ tick0.queue1 = <<1>>
    /\ r1 = "Ok"
    /\ core1.pc = 2
    /\ rcvd1 = <<1>>
    /\ IsEmpty(queue1)

\* C28: each counter equals the length of the queue its core writes plus the
\* number of Rcv instructions the other core has completed; a counter never
\* decreases and grows by at most 1 in a tick.
C28_Conservation ==
    /\ txcount1 = Len(queue2) + Len(rcvd2)
    /\ txcount2 = Len(queue1) + Len(rcvd1)
    /\ txcount1 = Len(sent1)
    /\ txcount2 = Len(sent2)
    /\ txcount1 - tick0.txcount1 \in {0, 1}
    /\ txcount2 - tick0.txcount2 \in {0, 1}

C28_Witness ==
    /\ at = "run"
    /\ txcount1 >= 2
    /\ txcount2 >= 2
    /\ Len(queue2) >= 1
    /\ Len(rcvd2) >= 1
    /\ Len(rcvd1) >= 1
    /\ txcount1 = tick0.txcount1

\* last element of a non-empty sequence
Last(q) == q[Len(q)]

\* C29: a value core1 sends in a tick is there for core2's Rcv of the same
\* tick; a value core2 sends in a tick is still queued when the tick is over,
\* and a core1 that found its queue empty in that tick returned Deadlock; a
\* tick with core1 returning Deadlock and core2 sending returns Ok, not
\* Deadlock.
C29_SameTickVisibility ==
    Core2Stepped =>
       /\ (IsOp(tick0.core1, "Snd") /\ IsOp(tick0.core2, "Rcv") /\ IsEmpty(tick0.queue2)) =>
             /\ r2 = "Ok"
             /\ Last(rcvd2) = Last(sent1)
             /\ RegGet(core2.regs, CodeGet(tick0.core2).r)
                   = ValueGet(CodeGet(tick0.core1).x, tick0.core1.regs)
             /\ Len(rcvd2) = Len(sent1)
       /\ IsOp(tick0.core2, "Snd") =>
             /\ ~IsEmpty(queue1)
             /\ Last(queue1) = ValueGet(CodeGet(tick0.core2).x, tick0.core2.regs)
             /\ Len(rcvd1) < Len(sent2)
       /\ (IsOp(tick0.core2, "Snd") /\ IsOp(tick0.core1, "Rcv") /\ IsEmpty(tick0.queue1)) =>
             /\ r1 = "Deadlock"
             /\ r2 = "Ok"
             /\ core1 = tick0.core1
             /\ TickOver => res = "Ok"

C29_Witness ==
    /\ at = "run"
    /\ IsOp(tick0.core2, "Snd")
    /\ IsOp(tick0.core1, "Rcv")
    /\ IsEmpty(tick0.queue1)
    /\ r1 = "Deadlock"
    /\ res = "Ok"
    /\ Len(queue1) = 1

\* core2 and its queues and counter are what one step of core2 makes of
\* those the tick was entered with, core1 having changed nothing
Core2SteppedAlone ==
    \E c2 \in BOOLEAN :
       LET b == step_core(tick0.core2, tick0.queue2, tick0.queue1, tick0.txcount2, c2)
       IN  /\ core2 = b.core /\ txcount2 = b.count /\ r2 = b.res
           /\ queue2 = b.rx
           /\ queue1 = b.tx
           /\ core1 = tick0.core1 /\ txcount1 = tick0.txcount1

\* C30: in the tick in which core1 returns OutOfInstructions core2 is stepped
\* once as well; what that step did is in the fields when run returns and in
\* the counters it returns; the step returns OutOfInstructions and once run
\* has returned both cores have had exactly one call per tick, whether or not
\* core2 has instructions left.
C30_LastTick ==
    /\ (Core2Stepped /\ r1 = "OutOfInstructions") =>
          /\ ~InCode(tick0.core1)
          /\ Core2SteppedAlone
          /\ calls1 = calls2
    /\ (TickOver /\ r1 = "OutOfInstructions") => res = "OutOfInstructions"
    /\ (at = "done" /\ r1 = "OutOfInstructions") =>
          /\ ret = Some(<<txcount1, txcount2>>)
          /\ IsOp(tick0.core2, "Snd") =>
                (txcount2 = tick0.txcount2 + 1 /\ Len(queue1) = Len(tick0.queue1) + 1)
          /\ (IsOp(tick0.core2, "Rcv") /\ ~IsEmpty(tick0.queue2)) =>
                (queue2 = Tail(tick0.queue2) /\ Len(rcvd2) = Len(sent1) - Len(queue2))
    /\ at = "done" => (calls1 = ticks /\ calls2 = ticks)

C30_Witness ==
    /\ at = "done"
    /\ r1 = "OutOfInstructions"
    /\ IsOp(tick0.core2, "Snd")
    /\ r2 = "Ok"
    /\ ret = Some(<<1, 2>>)
    /\ InCode(core2)
    /\ InCode(tick0.core2)

====
